---- MODULE Spec2Model ----
(***************************************************************************)
(* The frame layer of mitsu-ac (src/src/protocol/frame.rs): the envelope   *)
(* parser Frame::parse, the scanner Frame::parse_until, the checksum and   *)
(* Frame::encode, driven by a caller that hands byte buffers in; and the   *)
(* payload layer (types.rs, encoding.rs, frame_data.rs): the enumerations, *)
(* the temperatures, the SetRequest codec and the GetInfoResponse decoders.*)
(*                                                                         *)
(* Bytes are integers 0..255, byte slices are sequences.  A result is a    *)
(* record with a field kind: "Ok", "Incomplete" (nom::Err::Incomplete),    *)
(* "Error" (nom::Err::Error, with the nom ErrorKind in code and the input  *)
(* position in at), "Err" (an EncodingError in err) or "Panic".            *)
(***************************************************************************)
EXTENDS Integers, Sequences, FiniteSets, TLC

VARIABLES
    data,             \* the caller's byte buffer (parse input, encode destination)
    out,              \* the result of the last call
    origin,           \* how data came about: as received, or one byte changed
    overflow_checks   \* the build: TRUE when integer overflow panics (debug profile)

vars == <<data, out, origin, overflow_checks>>

(***************************************************************************)
(* Bounds of the model and the byte values the inputs are drawn from.      *)
(***************************************************************************)
MaxRaw == 5
MaxPayload == 2
MaxDst == 9
MaxChecksumData == 1
LongPayloadLen == 256

Alphabet == {0, 1, 48, 122, 252}
PayloadBytes == {0, 142, 252}
TypeBytes == {65, 66, 90, 97, 98, 122, 0, 67, 255}
MutBytes == {0, 1, 48, 67, 122, 252, 255}
DstFill == {0, 238}

SeqsUpTo(S, n) == UNION {[1..k -> S] : k \in 0..n}

(***************************************************************************)
(* frame.rs: DataType and the fixed bytes of the envelope.                 *)
(***************************************************************************)
FRAME_START == 252
FRAME_B3 == 1
FRAME_B4 == 48

DataTypes ==
    {"SetRequest", "GetInfoRequest", "ConnectRequest",
     "SetResponse", "GetInfoResponse", "ConnectResponse", "Unknown"}

\* impl From<u8> for DataType
DataTypeFrom(byte) ==
    CASE byte = 65 -> "SetRequest"
      [] byte = 66 -> "GetInfoRequest"
      [] byte = 90 -> "ConnectRequest"
      [] byte = 97 -> "SetResponse"
      [] byte = 98 -> "GetInfoResponse"
      [] byte = 122 -> "ConnectResponse"
      [] OTHER -> "Unknown"

\* `data_type as u8`: the discriminant of the #[repr(u8)] enum
DataTypeAsU8(dt) ==
    CASE dt = "SetRequest" -> 65
      [] dt = "GetInfoRequest" -> 66
      [] dt = "ConnectRequest" -> 90
      [] dt = "SetResponse" -> 97
      [] dt = "GetInfoResponse" -> 98
      [] dt = "ConnectResponse" -> 122
      [] dt = "Unknown" -> 255

\* Frame::new
FrameNew(data_type, data_len, payload) ==
    [data_type |-> data_type, data_len |-> data_len, data |-> payload]

\* <Frame<T> as SizedEncoding>::length
FrameLength(frame) == 5 + Len(frame.data) + 1

(***************************************************************************)
(* Arithmetic of the checksum.                                             *)
(***************************************************************************)
\* The sum of the bytes of s, by halves.
RECURSIVE SumBytes(_)
SumBytes(s) ==
    IF s = <<>> THEN 0
    ELSE IF Len(s) = 1 THEN s[1]
    ELSE LET h == Len(s) \div 2
         IN  SumBytes(SubSeq(s, 1, h)) + SumBytes(SubSeq(s, h + 1, Len(s)))

\* `sum as u8` of checksum(): the low byte of the u32 sum of the header bytes,
\* the length and the data.  The u32 sum itself cannot wrap for the lengths and
\* slices considered here (it stays below 2^17).
ChecksumSum8(data_type, data_len, payload) ==
    (FRAME_START + DataTypeAsU8(data_type) + FRAME_B3 + FRAME_B4
        + data_len + SumBytes(payload)) % 256

\* A plausible slip: the data bytes are left out of the sum.
ChecksumHeaderOnly(data_type, data_len, payload) ==
    LET s == (FRAME_START + DataTypeAsU8(data_type) + FRAME_B3 + FRAME_B4 + data_len) % 256
    IN  IF s > 252 /\ overflow_checks
        THEN [kind |-> "Panic"]
        ELSE [kind |-> "Ok", val |-> (252 - s) % 256]

\* A plausible slip: the earlier draft's sum of type, constants, length and data,
\* without the start byte and the subtraction.
ChecksumPlainSum(data_type, data_len, payload) ==
    [kind |-> "Ok",
     val |-> (FRAME_B3 + FRAME_B4 + DataTypeAsU8(data_type) + data_len + SumBytes(payload)) % 256]

\* fn checksum: `0xfc - (sum as u8)` is a u8 subtraction; it overflows when the
\* low byte of the sum exceeds 0xfc, which panics in a build with overflow
\* checks and wraps in one without.
Checksum(data_type, data_len, payload) ==
    LET s == ChecksumSum8(data_type, data_len, payload)
    IN  IF s > 252 /\ overflow_checks
        THEN [kind |-> "Panic"]
        ELSE [kind |-> "Ok", val |-> (252 - s) % 256]

(***************************************************************************)
(* The nom 5 combinators frame.rs is written with, in their streaming      *)
(* form (what the tag!, take!, take_till! macros and                       *)
(* nom::number::streaming::be_u8 expand to).  The size hint of Incomplete  *)
(* is not modelled.                                                        *)
(***************************************************************************)
Drop(s, n) == SubSeq(s, n + 1, Len(s))
Take_(s, n) == SubSeq(s, 1, n)

Incomplete == [kind |-> "Incomplete"]
ErrorAt(i, code) == [kind |-> "Error", code |-> code, at |-> i]

\* A plausible slip: the complete-input tag, which reports a short input as a
\* mismatch instead of asking for more bytes.
TagComplete(i, t) ==
    IF Len(i) >= Len(t) /\ Take_(i, Len(t)) = t
    THEN [kind |-> "Ok", rest |-> Drop(i, Len(t))]
    ELSE ErrorAt(i, "Tag")

\* A plausible slip: the fixed bytes are skipped without being compared.
TagSkip(i, t) ==
    IF Len(i) >= Len(t)
    THEN [kind |-> "Ok", rest |-> Drop(i, Len(t))]
    ELSE Incomplete

\* tag!: the bytes present are compared first; a mismatch among them is an
\* Error(Tag), a matching but short input is Incomplete.
Tag(i, t) ==
    LET n == IF Len(i) < Len(t) THEN Len(i) ELSE Len(t)
    IN  IF \E k \in 1..n : i[k] # t[k]
        THEN ErrorAt(i, "Tag")
        ELSE IF Len(i) >= Len(t)
             THEN [kind |-> "Ok", rest |-> Drop(i, Len(t))]
             ELSE Incomplete

\* A plausible slip: the complete-input number parser, which reports an empty
\* input as an error instead of asking for more bytes.
BeU8Complete(i) ==
    IF Len(i) < 1
    THEN ErrorAt(i, "Eof")
    ELSE [kind |-> "Ok", rest |-> Tail(i), val |-> Head(i)]

\* be_u8
BeU8(i) ==
    IF Len(i) < 1
    THEN Incomplete
    ELSE [kind |-> "Ok", rest |-> Tail(i), val |-> Head(i)]

\* A plausible slip: one byte too many is taken as the data.
TakeOneMore(i, count) ==
    IF Len(i) < count + 1
    THEN Incomplete
    ELSE [kind |-> "Ok", rest |-> Drop(i, count + 1), val |-> Take_(i, count + 1)]

\* take!(count)
Take(i, count) ==
    IF Len(i) < count
    THEN Incomplete
    ELSE [kind |-> "Ok", rest |-> Drop(i, count), val |-> Take_(i, count)]

\* The index of the first start byte of i, or Len(i) + 1 when there is none.
FirstStart(i, k) ==
    LET starts == {j \in k..Len(i) : i[j] = FRAME_START}
    IN  IF starts = {}
        THEN (IF k > Len(i) THEN k ELSE Len(i) + 1)
        ELSE CHOOSE j \in starts : \A m \in starts : j <= m

\* A plausible slip: the scan also swallows the start byte it stops at.
ParseUntilPastStart(i) ==
    LET k == FirstStart(i, 1)
    IN  IF k > Len(i)
        THEN Incomplete
        ELSE [kind |-> "Ok", rest |-> Drop(i, k), junk |-> Take_(i, k)]

\* Frame::parse_until: take_till!(data, |b| b == FRAME_START).  The streaming
\* take_till is Incomplete when no byte of the input satisfies the predicate.
ParseUntil(i) ==
    LET k == FirstStart(i, 1)
    IN  IF k > Len(i)
        THEN Incomplete
        ELSE [kind |-> "Ok", rest |-> Drop(i, k - 1), junk |-> Take_(i, k - 1)]

\* verify!(be_u8, |b| *b == checksum(data_type, data_len, data)): the byte is
\* read first; the checksum is computed only when there is one to compare.
VerifyChecksum(i, frame) ==
    LET b == BeU8(i)
    IN  IF b.kind # "Ok" THEN b
        ELSE LET c == Checksum(frame.data_type, frame.data_len, frame.data)
             IN  IF c.kind = "Panic" THEN [kind |-> "Panic"]
                 ELSE IF b.val = c.val
                      THEN [kind |-> "Ok", rest |-> b.rest, frame |-> frame]
                      ELSE ErrorAt(i, "Verify")

\* Frame::parse: do_parse! runs the parsers in order and returns the first
\* failure as it is.
FrameParse(i) ==
    LET r1 == Tag(i, <<FRAME_START>>)
    IN  IF r1.kind # "Ok" THEN r1 ELSE
    LET r2 == BeU8(r1.rest)
    IN  IF r2.kind # "Ok" THEN r2 ELSE
    LET r3 == Tag(r2.rest, <<FRAME_B3, FRAME_B4>>)
    IN  IF r3.kind # "Ok" THEN r3 ELSE
    LET r4 == BeU8(r3.rest)
    IN  IF r4.kind # "Ok" THEN r4 ELSE
    LET r5 == Take(r4.rest, r4.val)
    IN  IF r5.kind # "Ok" THEN r5 ELSE
    VerifyChecksum(r5.rest, FrameNew(DataTypeFrom(r2.val), r4.val, r5.val))

(***************************************************************************)
(* Frame<&[u8]>::encode into the destination buf.  The result carries the  *)
(* destination as the call leaves it.                                      *)
(***************************************************************************)
\* buf with the bytes w written from offset off (0-based)
WriteAt(buf, off, w) ==
    [k \in 1..Len(buf) |->
        IF k > off /\ k <= off + Len(w) THEN w[k - off] ELSE buf[k]]

FrameEncode(frame, buf) ==
    IF Len(buf) < 5 + frame.data_len + 1
    THEN [kind |-> "Err", err |-> "BufferTooSmall", buf |-> buf]
    ELSE \* rest.split_at_mut(self.data.length()) panics when mid > rest.len()
    IF Len(frame.data) > Len(buf) - 5
    THEN [kind |-> "Panic", buf |-> buf]
    ELSE
    LET header == <<FRAME_START, DataTypeAsU8(frame.data_type), FRAME_B3, FRAME_B4,
                    Len(frame.data) % 256>>
        \* <&[u8] as Encodable>::encode copies the slice: the lengths are equal here
        written == WriteAt(WriteAt(buf, 0, header), 5, frame.data)
        last == 5 + Len(frame.data)
    IN  IF Len(buf) <= last
        THEN [kind |-> "Err", err |-> "BufferTooSmall", buf |-> written]
        ELSE LET c == Checksum(frame.data_type, frame.data_len, frame.data)
             IN  IF c.kind = "Panic"
                 THEN [kind |-> "Panic", buf |-> written]
                 ELSE [kind |-> "Ok", n |-> 5 + frame.data_len + 1,
                       buf |-> WriteAt(written, last, <<c.val>>)]

(***************************************************************************)
(* types.rs: the setting enumerations.  A variant is the string of its     *)
(* name; From<u8> is the decoding of a byte, encoded_as_byte the encoding. *)
(***************************************************************************)
\* impl From<u8> for Power
PowerFrom(byte) ==
    CASE byte = 0 -> "Off"
      [] byte = 1 -> "On"
      [] OTHER -> "Unknown"

\* impl From<u8> for Mode
ModeFrom(byte) ==
    CASE byte = 1 -> "Heat"
      [] byte = 2 -> "Dry"
      [] byte = 3 -> "Cool"
      [] byte = 7 -> "Fan"
      [] byte = 8 -> "Auto"
      [] OTHER -> "Unknown"

\* A plausible slip: the fan speeds taken as the contiguous codes 2..5.
FanFromContiguous(byte) ==
    CASE byte = 0 -> "Auto"
      [] byte = 1 -> "Quiet"
      [] byte = 2 -> "F1"
      [] byte = 3 -> "F2"
      [] byte = 4 -> "F3"
      [] byte = 5 -> "F4"
      [] OTHER -> "Unknown"

\* impl From<u8> for Fan
FanFrom(byte) ==
    CASE byte = 0 -> "Auto"
      [] byte = 1 -> "Quiet"
      [] byte = 2 -> "F1"
      [] byte = 3 -> "F2"
      [] byte = 5 -> "F3"
      [] byte = 6 -> "F4"
      [] OTHER -> "Unknown"

\* impl From<u8> for Vane
VaneFrom(byte) ==
    CASE byte = 0 -> "Auto"
      [] byte = 1 -> "V1"
      [] byte = 2 -> "V2"
      [] byte = 3 -> "V3"
      [] byte = 4 -> "V4"
      [] byte = 5 -> "V5"
      [] byte = 7 -> "Swing"
      [] OTHER -> "Unknown"

\* impl From<u8> for WideVane
WideVaneFrom(byte) ==
    CASE byte = 1 -> "LL"
      [] byte = 2 -> "L"
      [] byte = 3 -> "Center"
      [] byte = 4 -> "R"
      [] byte = 5 -> "RR"
      [] byte = 8 -> "LR"
      [] byte = 12 -> "Swing"
      [] OTHER -> "Unknown"

\* impl From<u8> for ISee
ISeeFrom(byte) ==
    CASE byte = 0 -> "Off"
      [] byte = 1 -> "On"
      [] OTHER -> "Unknown"

\* frame_data.rs: impl From<u8> for InfoType
InfoTypeFrom(byte) ==
    CASE byte = 2 -> "Settings"
      [] byte = 3 -> "RoomTemp"
      [] byte = 4 -> "Type4"
      [] byte = 5 -> "Timers"
      [] byte = 6 -> "Status"
      [] byte = 9 -> "MaybeStandby"
      [] OTHER -> "Unknown"

Enums == {"Power", "Mode", "Fan", "Vane", "WideVane", "ISee", "InfoType", "DataType"}

\* <enum>::from(byte)
EnumFrom(enum, byte) ==
    CASE enum = "Power" -> PowerFrom(byte)
      [] enum = "Mode" -> ModeFrom(byte)
      [] enum = "Fan" -> FanFrom(byte)
      [] enum = "Vane" -> VaneFrom(byte)
      [] enum = "WideVane" -> WideVaneFrom(byte)
      [] enum = "ISee" -> ISeeFrom(byte)
      [] enum = "InfoType" -> InfoTypeFrom(byte)
      [] enum = "DataType" -> DataTypeFrom(byte)

(***************************************************************************)
(* frame_data.rs: the payload decoders.  An Option is a record with the    *)
(* field some; a Temperature is a record of its representation and byte.   *)
(***************************************************************************)
Some(v) == [some |-> TRUE, val |-> v]
None == [some |-> FALSE]

HalfDegreesCPlusOffset(value) == [rep |-> "HalfDegreesCPlusOffset", value |-> value]
SetpointMapped(value) == [rep |-> "SetpointMapped", value |-> value]
RoomTempMapped(value) == [rep |-> "RoomTempMapped", value |-> value]

\* A u8 operation: the result wraps modulo 256 in a build without overflow
\* checks and panics in a build with them.
U8(x) ==
    IF x >= 0 /\ x <= 255 THEN [kind |-> "Ok", val |-> x]
    ELSE IF overflow_checks THEN [kind |-> "Panic"]
    ELSE [kind |-> "Ok", val |-> x % 256]

\* Temperature::celsius_tenths: (value - 128) * 5, (0x1f - value) * 10 and
\* (value + 10) * 10, each operation in u8.
CelsiusTenths(temp) ==
    LET a == CASE temp.rep = "HalfDegreesCPlusOffset" -> U8(temp.value - 128)
               [] temp.rep = "SetpointMapped" -> U8(31 - temp.value)
               [] temp.rep = "RoomTempMapped" -> U8(temp.value + 10)
    IN  IF a.kind = "Panic" THEN a
        ELSE IF temp.rep = "HalfDegreesCPlusOffset" THEN U8(a.val * 5)
        ELSE U8(a.val * 10)

\* bit k (0 = least significant) of the byte b
Bit(b, k) == (b \div (2 ^ k)) % 2

\* <enum>::from_repr(v): the byte-to-variant mapping that never fails and gives
\* Unknown for a value outside the table.
FromRepr(enum, v) == Some(EnumFrom(enum, v))

\* A plausible slip: a value that maps to Unknown is rejected.
MapOptU8Strict(i, enum) ==
    LET b == BeU8(i)
    IN  IF b.kind # "Ok" THEN b
        ELSE LET o == FromRepr(enum, b.val)
             IN  IF o.some /\ o.val # "Unknown"
                 THEN [kind |-> "Ok", rest |-> b.rest, val |-> o.val]
                 ELSE ErrorAt(i, "MapOpt")

\* map_opt!(be_u8, <enum>::from_repr): Error(MapOpt) when from_repr gives None
MapOptU8(i, enum) ==
    LET b == BeU8(i)
    IN  IF b.kind # "Ok" THEN b
        ELSE LET o == FromRepr(enum, b.val)
             IN  IF o.some
                 THEN [kind |-> "Ok", rest |-> b.rest, val |-> o.val]
                 ELSE ErrorAt(i, "MapOpt")

\* cond!(c, map_opt!(be_u8, <enum>::from_repr)): nothing is consumed when c is false
CondMapOptU8(c, i, enum) ==
    IF ~c THEN [kind |-> "Ok", rest |-> i, val |-> None]
    ELSE LET r == MapOptU8(i, enum)
         IN  IF r.kind # "Ok" THEN r
             ELSE [kind |-> "Ok", rest |-> r.rest, val |-> Some(r.val)]

\* cond!(c, be_u8)
CondU8(c, i) ==
    IF ~c THEN [kind |-> "Ok", rest |-> i, val |-> None]
    ELSE LET r == BeU8(i)
         IN  IF r.kind # "Ok" THEN r
             ELSE [kind |-> "Ok", rest |-> r.rest, val |-> Some(r.val)]

\* <SetRequest as Parseable>::parse.  bits! reads the two flag bytes most
\* significant bit first: three bits skipped, then vane, fan, temp, mode, power;
\* seven bits skipped, then widevane.
SetRequestParse(i) ==
    LET r1 == Tag(i, <<1>>)
    IN  IF r1.kind # "Ok" THEN r1 ELSE
    LET r2 == Take(r1.rest, 2)
    IN  IF r2.kind # "Ok" THEN r2 ELSE
    LET f_power == Bit(r2.val[1], 0) = 1
        f_mode == Bit(r2.val[1], 1) = 1
        f_temp == Bit(r2.val[1], 2) = 1
        f_fan == Bit(r2.val[1], 3) = 1
        f_vane == Bit(r2.val[1], 4) = 1
        f_widevane == Bit(r2.val[2], 0) = 1
        power == CondMapOptU8(f_power, r2.rest, "Power")
    IN  IF power.kind # "Ok" THEN power ELSE
    LET mode == CondMapOptU8(f_mode, power.rest, "Mode")
    IN  IF mode.kind # "Ok" THEN mode ELSE
    LET temp_mapped == CondU8(f_temp, mode.rest)
    IN  IF temp_mapped.kind # "Ok" THEN temp_mapped ELSE
    LET fan == CondMapOptU8(f_fan, temp_mapped.rest, "Fan")
    IN  IF fan.kind # "Ok" THEN fan ELSE
    LET vane == CondMapOptU8(f_vane, fan.rest, "Vane")
    IN  IF vane.kind # "Ok" THEN vane ELSE
    LET r8 == Take(vane.rest, 5)
    IN  IF r8.kind # "Ok" THEN r8 ELSE
    LET widevane == CondMapOptU8(f_widevane, r8.rest, "WideVane")
    IN  IF widevane.kind # "Ok" THEN widevane ELSE
    LET temp == CondU8(f_temp, widevane.rest)
    IN  IF temp.kind # "Ok" THEN temp ELSE
    LET r11 == Take(temp.rest, 1)
    IN  IF r11.kind # "Ok" THEN r11 ELSE
    [kind |-> "Ok", rest |-> r11.rest,
     val |-> [power |-> power.val, mode |-> mode.val,
              temp |-> IF temp.val.some
                       THEN Some(HalfDegreesCPlusOffset(temp.val.val)) ELSE None,
              fan |-> fan.val, vane |-> vane.val, widevane |-> widevane.val]]

\* The temperature of a Settings payload: the mapped reading stands in when
\* the half-degree byte is 0.
SetpointFallback(setpoint_mapped, setpoint_half_deg) ==
    IF setpoint_half_deg = HalfDegreesCPlusOffset(0)
    THEN setpoint_mapped
    ELSE setpoint_half_deg

\* A plausible slip: the mapped reading is preferred whenever it is non-zero.
RoomTempFallbackMappedFirst(half_deg, mapped) ==
    IF mapped.value # 0 THEN mapped ELSE half_deg

\* The temperature of a RoomTemperature payload
RoomTempFallback(half_deg, mapped) ==
    IF half_deg = HalfDegreesCPlusOffset(0)
    THEN mapped
    ELSE half_deg

\* GetInfoResponse::decode_settings.  bits! splits the byte after power most
\* significant bit first: four bits skipped, one bit of ISee, three bits of Mode.
DecodeSettings(i) ==
    LET r1 == Tag(i, <<2>>)
    IN  IF r1.kind # "Ok" THEN r1 ELSE
    LET r2 == Take(r1.rest, 2)
    IN  IF r2.kind # "Ok" THEN r2 ELSE
    LET power == MapOptU8(r2.rest, "Power")
    IN  IF power.kind # "Ok" THEN power ELSE
    LET mi == BeU8(power.rest)
    IN  IF mi.kind # "Ok" THEN mi ELSE
    LET isee == FromRepr("ISee", Bit(mi.val, 3))
        mode == FromRepr("Mode", mi.val % 8)
    IN  IF ~(isee.some /\ mode.some) THEN ErrorAt(power.rest, "MapOpt") ELSE
    LET setpoint_mapped == BeU8(mi.rest)
    IN  IF setpoint_mapped.kind # "Ok" THEN setpoint_mapped ELSE
    LET fan == MapOptU8(setpoint_mapped.rest, "Fan")
    IN  IF fan.kind # "Ok" THEN fan ELSE
    LET vane == MapOptU8(fan.rest, "Vane")
    IN  IF vane.kind # "Ok" THEN vane ELSE
    LET r9 == Take(vane.rest, 2)
    IN  IF r9.kind # "Ok" THEN r9 ELSE
    LET widevane == MapOptU8(r9.rest, "WideVane")
    IN  IF widevane.kind # "Ok" THEN widevane ELSE
    LET setpoint_half_deg == BeU8(widevane.rest)
    IN  IF setpoint_half_deg.kind # "Ok" THEN setpoint_half_deg ELSE
    LET r12 == Take(setpoint_half_deg.rest, 4)
    IN  IF r12.kind # "Ok" THEN r12 ELSE
    [kind |-> "Ok", rest |-> r12.rest,
     val |-> [variant |-> "Settings",
              power |-> power.val, mode |-> mode.val,
              setpoint |-> SetpointFallback(SetpointMapped(setpoint_mapped.val),
                                            HalfDegreesCPlusOffset(setpoint_half_deg.val)),
              fan |-> fan.val, vane |-> vane.val, widevane |-> widevane.val,
              isee |-> isee.val]]

\* GetInfoResponse::decode_room_temp
DecodeRoomTemp(i) ==
    LET r1 == Tag(i, <<3>>)
    IN  IF r1.kind # "Ok" THEN r1 ELSE
    LET r2 == Take(r1.rest, 2)
    IN  IF r2.kind # "Ok" THEN r2 ELSE
    LET mapped == BeU8(r2.rest)
    IN  IF mapped.kind # "Ok" THEN mapped ELSE
    LET r4 == Take(mapped.rest, 2)
    IN  IF r4.kind # "Ok" THEN r4 ELSE
    LET half_deg == BeU8(r4.rest)
    IN  IF half_deg.kind # "Ok" THEN half_deg ELSE
    LET r6 == Take(half_deg.rest, 9)
    IN  IF r6.kind # "Ok" THEN r6 ELSE
    [kind |-> "Ok", rest |-> r6.rest,
     val |-> [variant |-> "RoomTemperature",
              temperature |-> RoomTempFallback(HalfDegreesCPlusOffset(half_deg.val),
                                               RoomTempMapped(mapped.val))]]

\* GetInfoResponse::decode_timer
DecodeTimer(i) ==
    LET r1 == Tag(i, <<5>>)
    IN  IF r1.kind # "Ok" THEN r1 ELSE
    [kind |-> "Ok", rest |-> r1.rest, val |-> [variant |-> "Unknown"]]

\* GetInfoResponse::decode_status
DecodeStatus(i) ==
    LET r1 == Tag(i, <<6>>)
    IN  IF r1.kind # "Ok" THEN r1 ELSE
    LET r2 == Take(r1.rest, 2)
    IN  IF r2.kind # "Ok" THEN r2 ELSE
    LET compressor_frequency == BeU8(r2.rest)
    IN  IF compressor_frequency.kind # "Ok" THEN compressor_frequency ELSE
    LET operating == BeU8(compressor_frequency.rest)
    IN  IF operating.kind # "Ok" THEN operating ELSE
    [kind |-> "Ok", rest |-> operating.rest,
     val |-> [variant |-> "Status",
              compressor_frequency |-> compressor_frequency.val,
              operating |-> operating.val]]

\* GetInfoResponse::decode_unknown
DecodeUnknown(i) == [kind |-> "Ok", rest |-> i, val |-> [variant |-> "Unknown"]]

\* <GetInfoResponse as Parseable>::parse: alt! goes on to the next decoder only
\* when one fails with Error; Ok and Incomplete are returned as they are.
GetInfoResponseParse(i) ==
    LET a == DecodeSettings(i)
    IN  IF a.kind # "Error" THEN a ELSE
    LET b == DecodeRoomTemp(i)
    IN  IF b.kind # "Error" THEN b ELSE
    LET c == DecodeTimer(i)
    IN  IF c.kind # "Error" THEN c ELSE
    LET d == DecodeStatus(i)
    IN  IF d.kind # "Error" THEN d ELSE
    DecodeUnknown(i)

(***************************************************************************)
(* The SetRequest encoder (frame_data.rs) with the one-byte encodings of   *)
(* types.rs and encoding.rs.  A SetRequest is a record of six Options.     *)
(***************************************************************************)
SetRequestLength == 16

\* <enum as OneByteEncodable>::encoded_as_byte
EncodedAsByte(enum, v) ==
    CASE enum = "Power" ->
           (CASE v = "Off" -> 0 [] v = "On" -> 1 [] v = "Unknown" -> 0)
      [] enum = "Mode" ->
           (CASE v = "Heat" -> 1 [] v = "Dry" -> 2 [] v = "Cool" -> 3 [] v = "Fan" -> 7
              [] v = "Auto" -> 8 [] v = "Unknown" -> 0)
      [] enum = "Fan" ->
           (CASE v = "Auto" -> 0 [] v = "Quiet" -> 1 [] v = "F1" -> 2 [] v = "F2" -> 3
              [] v = "F3" -> 5 [] v = "F4" -> 6 [] v = "Unknown" -> 0)
      [] enum = "Vane" ->
           (CASE v = "Auto" -> 0 [] v = "V1" -> 1 [] v = "V2" -> 2 [] v = "V3" -> 3
              [] v = "V4" -> 4 [] v = "V5" -> 5 [] v = "Swing" -> 7 [] v = "Unknown" -> 0)
      [] enum = "WideVane" ->
           (CASE v = "LL" -> 1 [] v = "L" -> 2 [] v = "Center" -> 3 [] v = "R" -> 4
              [] v = "RR" -> 5 [] v = "LR" -> 8 [] v = "Swing" -> 12 [] v = "Unknown" -> 0)

\* TenthDegreesC::encode_as_setpoint_mapped and encode_as_half_deg_plus_offset
\* of a TenthDegreesC(t); t is a u8, so neither can leave 0..255.
EncodeAsSetpointMapped(t) == 31 - (t \div 10)
EncodeAsHalfDegPlusOffset(t) == (t \div 5) + 128

\* <Option<T> as Encodable>::encode into the one-byte slice at offset off of
\* buf: Some writes encoded_as_byte, None writes nothing.
OptionEncode(opt, enum, buf, off) ==
    IF opt.some THEN WriteAt(buf, off, <<EncodedAsByte(enum, opt.val)>>) ELSE buf

\* A plausible slip, that of the earlier draft's write_flags: the bit of a
\* field holding Unknown is left clear.
EncodeFlagsKnownOnly(req, into) ==
    IF Len(into) # 2
    THEN [kind |-> "Err", err |-> "BufferTooSmall", buf |-> into]
    ELSE LET set(f) == req[f].some /\ req[f].val # "Unknown"
         IN  [kind |-> "Ok",
              buf |-> <<(IF set("power") THEN 1 ELSE 0)
                          + (IF set("mode") THEN 2 ELSE 0)
                          + (IF req.temp.some THEN 4 ELSE 0)
                          + (IF set("fan") THEN 8 ELSE 0)
                          + (IF set("vane") THEN 16 ELSE 0),
                        IF set("widevane") THEN 1 ELSE 0>>]

\* SetRequest::encode_flags
EncodeFlags(req, into) ==
    IF Len(into) # 2
    THEN [kind |-> "Err", err |-> "BufferTooSmall", buf |-> into]
    ELSE [kind |-> "Ok",
          buf |-> <<(IF req.power.some THEN 1 ELSE 0)
                      + (IF req.mode.some THEN 2 ELSE 0)
                      + (IF req.temp.some THEN 4 ELSE 0)
                      + (IF req.fan.some THEN 8 ELSE 0)
                      + (IF req.vane.some THEN 16 ELSE 0),
                    IF req.widevane.some THEN 1 ELSE 0>>]

\* <SetRequest as Encodable>::encode.  The bytes are written in order, so a
\* panic of celsius_tenths leaves the bytes before offset 5 written.
SetRequestEncode(req, buf) ==
    IF Len(buf) # SetRequestLength
    THEN [kind |-> "Err", err |-> "BufferTooSmall", buf |-> buf]
    ELSE
    LET flags == EncodeFlags(req, SubSeq(buf, 2, 3))
        b4 == OptionEncode(req.mode, "Mode",
                OptionEncode(req.power, "Power",
                  WriteAt(WriteAt(buf, 0, <<1>>), 1, flags.buf), 3), 4)
        tenths == IF req.temp.some THEN CelsiusTenths(req.temp.val)
                  ELSE [kind |-> "Ok", val |-> 0]
    IN  IF tenths.kind = "Panic" THEN [kind |-> "Panic", buf |-> b4]
        ELSE
        LET b5 == WriteAt(b4, 5, <<IF req.temp.some
                                   THEN EncodeAsSetpointMapped(tenths.val) ELSE 0>>)
            b7 == OptionEncode(req.vane, "Vane", OptionEncode(req.fan, "Fan", b5, 6), 7)
            b12 == WriteAt(b7, 8, <<0, 0, 0, 0, 0>>)
            b13 == OptionEncode(req.widevane, "WideVane", b12, 13)
            b14 == WriteAt(b13, 14, <<IF req.temp.some
                                      THEN EncodeAsHalfDegPlusOffset(tenths.val) ELSE 0>>)
        IN  [kind |-> "Ok", n |-> SetRequestLength, buf |-> WriteAt(b14, 15, <<0>>)]

(***************************************************************************)
(* The other encodable payloads of frame_data.rs and Frame<T>::encode for  *)
(* a typed payload T.  A typed payload is a record with the field type     *)
(* ("SetRequest", "GetInfoRequest", "ConnectRequest") and its value val,   *)
(* a record.                                                               *)
(***************************************************************************)
GetInfoRequestLength == 16
ConnectRequestLength == 2
ConnectRequestBYTE1 == 202
ConnectRequestBYTE2 == 1

InfoTypes ==
    {"Settings", "RoomTemp", "Type4", "Timers", "Status", "MaybeStandby", "Unknown"}

\* `info_type as u8`: the discriminant of the #[repr(u8)] enum
InfoTypeAsU8(t) ==
    CASE t = "Settings" -> 2
      [] t = "RoomTemp" -> 3
      [] t = "Type4" -> 4
      [] t = "Timers" -> 5
      [] t = "Status" -> 6
      [] t = "MaybeStandby" -> 9
      [] t = "Unknown" -> 255

\* A plausible slip: the bytes after the first keep what the buffer held.
GetInfoRequestEncodeFirstOnly(t, buf) ==
    IF Len(buf) # GetInfoRequestLength
    THEN [kind |-> "Err", err |-> "BufferTooSmall", buf |-> buf]
    ELSE [kind |-> "Ok", n |-> GetInfoRequestLength,
          buf |-> WriteAt(buf, 0, <<InfoTypeAsU8(t)>>)]

\* <GetInfoRequest as Encodable>::encode
GetInfoRequestEncode(t, buf) ==
    IF Len(buf) # GetInfoRequestLength
    THEN [kind |-> "Err", err |-> "BufferTooSmall", buf |-> buf]
    ELSE [kind |-> "Ok", n |-> GetInfoRequestLength,
          buf |-> WriteAt(WriteAt(buf, 0, <<InfoTypeAsU8(t)>>), 1, [k \in 1..15 |-> 0])]

\* <ConnectRequest as Encodable>::encode
ConnectRequestEncode(buf) ==
    IF Len(buf) # ConnectRequestLength
    THEN [kind |-> "Err", err |-> "BufferTooSmall", buf |-> buf]
    ELSE [kind |-> "Ok", n |-> ConnectRequestLength,
          buf |-> WriteAt(buf, 0, <<ConnectRequestBYTE1, ConnectRequestBYTE2>>)]

\* <T as SizedEncoding>::length of a typed payload
PayloadLength(d) ==
    CASE d.type = "SetRequest" -> SetRequestLength
      [] d.type = "GetInfoRequest" -> GetInfoRequestLength
      [] d.type = "ConnectRequest" -> ConnectRequestLength

\* <T as Encodable>::encode of a typed payload
PayloadEncode(d, buf) ==
    CASE d.type = "SetRequest" -> SetRequestEncode(d.val, buf)
      [] d.type = "GetInfoRequest" -> GetInfoRequestEncode(d.val.info_type, buf)
      [] d.type = "ConnectRequest" -> ConnectRequestEncode(buf)

\* <Frame<T> as Encodable>::encode for a typed payload: the payload encodes
\* itself into the slice of its length after the header; `?` returns its error.
FrameEncodeData(frame, buf) ==
    IF Len(buf) < 5 + frame.data_len + 1
    THEN [kind |-> "Err", err |-> "BufferTooSmall", buf |-> buf]
    ELSE
    LET len == PayloadLength(frame.data)
    IN  IF len > Len(buf) - 5
        THEN [kind |-> "Panic", buf |-> buf]
        ELSE
        LET header == <<FRAME_START, DataTypeAsU8(frame.data_type), FRAME_B3, FRAME_B4,
                        len % 256>>
            hdr == WriteAt(buf, 0, header)
            e == PayloadEncode(frame.data, SubSeq(buf, 6, 5 + len))
            written == WriteAt(hdr, 5, e.buf)
            last == 5 + len
        IN  IF e.kind = "Panic" THEN [kind |-> "Panic", buf |-> written]
            ELSE IF e.kind = "Err" THEN [kind |-> "Err", err |-> e.err, buf |-> written]
            ELSE IF Len(buf) <= last
            THEN [kind |-> "Err", err |-> "BufferTooSmall", buf |-> written]
            ELSE LET c == Checksum(frame.data_type, frame.data_len, e.buf)
                 IN  IF c.kind = "Panic"
                     THEN [kind |-> "Panic", buf |-> written]
                     ELSE [kind |-> "Ok", n |-> 5 + frame.data_len + 1,
                           buf |-> WriteAt(written, last, <<c.val>>)]

\* A plausible slip: only the first magic byte is compared.
ConnectRequestParseFirstByte(i) ==
    LET r == Tag(i, <<ConnectRequestBYTE1>>)
    IN  IF r.kind # "Ok" THEN r
        ELSE IF Len(r.rest) < 1 THEN Incomplete
        ELSE [kind |-> "Ok", rest |-> Tail(r.rest), val |-> [variant |-> "ConnectRequest"]]

\* <ConnectRequest as Parseable>::parse
ConnectRequestParse(i) ==
    LET r == Tag(i, <<ConnectRequestBYTE1, ConnectRequestBYTE2>>)
    IN  IF r.kind # "Ok" THEN r
        ELSE [kind |-> "Ok", rest |-> r.rest, val |-> [variant |-> "ConnectRequest"]]

\* <GetInfoRequest as Parseable>::parse
GetInfoRequestParse(i) ==
    LET r1 == BeU8(i)
    IN  IF r1.kind # "Ok" THEN r1 ELSE
    LET r2 == Take(r1.rest, 15)
    IN  IF r2.kind # "Ok" THEN r2 ELSE
    [kind |-> "Ok", rest |-> r2.rest,
     val |-> [variant |-> "GetInfoRequest", info_type |-> InfoTypeFrom(r1.val)]]

\* <SetResponse as Parseable>::parse
SetResponseParse(i) ==
    LET r == Take(i, 16)
    IN  IF r.kind # "Ok" THEN r
        ELSE [kind |-> "Ok", rest |-> r.rest, val |-> [variant |-> "SetResponse"]]

\* <ConnectResponse as Parseable>::parse
ConnectResponseParse(i) ==
    LET r == BeU8(i)
    IN  IF r.kind # "Ok" THEN r
        ELSE [kind |-> "Ok", rest |-> r.rest,
              val |-> [variant |-> "ConnectResponse", byte |-> r.val]]

\* FrameData::parse_data_type: the payload parser's value wrapped in the
\* FrameData variant, its error returned as it is.
ParseDataType(variant, result) ==
    IF result.kind # "Ok" THEN result
    ELSE [kind |-> "Ok", rest |-> result.rest,
          val |-> [frame_data |-> variant, inner |-> result.val]]

\* FrameData::parse
FrameDataParse(frame) ==
    CASE frame.data_type = "SetRequest" ->
           ParseDataType("SetRequest", SetRequestParse(frame.data))
      [] frame.data_type = "GetInfoRequest" ->
           ParseDataType("GetInfoRequest", GetInfoRequestParse(frame.data))
      [] frame.data_type = "ConnectRequest" ->
           ParseDataType("ConnectRequest", ConnectRequestParse(frame.data))
      [] frame.data_type = "SetResponse" ->
           ParseDataType("SetResponse", SetResponseParse(frame.data))
      [] frame.data_type = "GetInfoResponse" ->
           ParseDataType("GetInfoResponse", GetInfoResponseParse(frame.data))
      [] frame.data_type = "ConnectResponse" ->
           ParseDataType("ConnectResponse", ConnectResponseParse(frame.data))
      [] frame.data_type = "Unknown" ->
           [kind |-> "Ok", rest |-> <<>>, val |-> [frame_data |-> "Unknown"]]

(***************************************************************************)
(* The inputs.  The device side of the wire computes the checksum over     *)
(* the bytes as they are sent: 0xfc minus the low byte of their sum, in    *)
(* 8 bits.                                                                 *)
(***************************************************************************)
WireChecksum(t, len, payload) ==
    (252 - ((FRAME_START + t + FRAME_B3 + FRAME_B4 + len + SumBytes(payload)) % 256)) % 256

WireFrame(t, len, payload, c) ==
    <<FRAME_START, t, FRAME_B3, FRAME_B4, len>> \o payload \o <<c>>

Payloads == SeqsUpTo(PayloadBytes, MaxPayload)
Junks == {<<>>, <<66, 0>>}
Tails == {<<>>, <<0>>, <<252>>}

\* The trailing bytes tried after a payload: the wire checksum, the checksum with
\* the type byte as the codec classifies it, and two wrong ones.
Trailers(t, payload) ==
    {WireChecksum(t, Len(payload), payload),
     WireChecksum(DataTypeAsU8(DataTypeFrom(t)), Len(payload), payload),
     172, 66}

RawBuffers == SeqsUpTo(Alphabet, MaxRaw)

FrameBuffers ==
    UNION {UNION {{j \o WireFrame(t, Len(p), p, c) \o tl :
                        j \in Junks, c \in Trailers(t, p), tl \in Tails} :
                  t \in TypeBytes} :
           p \in Payloads}

DstBuffers == UNION {[1..n -> {f}] : n \in 0..MaxDst, f \in DstFill}

\* A payload that does not fit the one-byte length field, and destinations
\* around the size of its frame.
LongPayload == [k \in 1..LongPayloadLen |-> 142]
LongDsts == {[k \in 1..n |-> 238] : n \in (5 + LongPayloadLen)..(5 + LongPayloadLen + 1)}
EncodePayloads == Payloads \cup {LongPayload}

\* Payloads handed to the payload decoders: the payloads of the tests of
\* frame_data.rs with one byte set to every value, and with the bytes the
\* decoders interpret combined.
SetRequestBase == <<1, 31, 1, 1, 8, 10, 0, 7, 0, 0, 0, 0, 0, 1, 170, 0>>
SettingsBase == <<2, 0, 0, 1, 1, 15, 0, 7, 0, 0, 3, 148, 0, 0, 0, 0>>
RoomTempBase == <<3, 0, 0, 11, 0, 0, 170, 0, 0, 0, 0, 0, 0, 0, 0, 0>>
StatusBase == <<6, 0, 0, 48, 1, 0, 0, 0, 0, 0, 0, 0, 0, 0, 0, 0>>
MappedBytes == {0, 11, 15, 255}

OneByteVaried(base) ==
    {WriteAt(base, off, <<b>>) : off \in 0..(Len(base) - 1), b \in 0..255}

SetRequestPayloads ==
    OneByteVaried(SetRequestBase)
    \cup {WriteAt(SetRequestBase, 1, <<f0, f1>>) : f0 \in 0..31, f1 \in {0, 1}}

GetInfoResponsePayloads ==
    OneByteVaried(SettingsBase) \cup OneByteVaried(RoomTempBase)
    \cup OneByteVaried(StatusBase)
    \cup {WriteAt(WriteAt(SettingsBase, 5, <<m>>), 11, <<h>>) :
            m \in MappedBytes, h \in 0..255}
    \cup {WriteAt(WriteAt(RoomTempBase, 3, <<m>>), 6, <<h>>) :
            m \in MappedBytes, h \in 0..255}
    \cup {WriteAt(WriteAt(SettingsBase, 3, <<pw, md>>), 6, <<fn, vn, 0, 0, wv>>) :
            pw \in {1, 2}, md \in {1, 9, 16}, fn \in {0, 4}, vn \in {7, 6}, wv \in {3, 0}}

\* The SetRequest values encoded: every field absent or present with one of
\* a few values.
OptionsOf(S) == {None} \cup {Some(v) : v \in S}

Temperatures ==
    {HalfDegreesCPlusOffset(170), HalfDegreesCPlusOffset(148), HalfDegreesCPlusOffset(127),
     SetpointMapped(10)}

SetRequests ==
    [power : OptionsOf({"On", "Unknown"}),
     mode : OptionsOf({"Auto", "Heat"}),
     temp : OptionsOf(Temperatures),
     fan : OptionsOf({"Auto", "F4"}),
     vane : OptionsOf({"Swing", "V1"}),
     widevane : OptionsOf({"LL", "Swing"})]

\* Destinations around the size of a SetRequest payload.
PayloadDsts ==
    {[k \in 1..n |-> f] : n \in (SetRequestLength - 1)..(SetRequestLength + 1),
                          f \in DstFill}

\* The typed payloads framed: the SetRequests with every field present or
\* every field absent, a GetInfoRequest of every InfoType, ConnectRequest.
FrameDatas ==
    {[type |-> "SetRequest", val |-> req] :
        req \in {r \in SetRequests :
                   \/ \A f \in DOMAIN r : r[f].some
                   \/ \A f \in DOMAIN r : ~r[f].some}}
    \cup {[type |-> "GetInfoRequest", val |-> [info_type |-> t]] : t \in InfoTypes}
    \cup {[type |-> "ConnectRequest"]}

\* Destinations around the size of a frame with a 16-byte payload.
FrameDataDsts ==
    {[k \in 1..n |-> f] : n \in (5 + SetRequestLength)..(5 + SetRequestLength + 2),
                          f \in DstFill}

\* Payloads handed to ConnectRequest::parse
MaxConnectPayload == 3
\* frames in the buffer of the read loop
MaxLoopFrames == 2
ConnectPayloads == SeqsUpTo({ConnectRequestBYTE1, ConnectRequestBYTE2, 0}, MaxConnectPayload)

\* Payloads of the frames handed to FrameData::parse: whole payloads of the
\* tests, some of them cut short or extended.
DataPayloads ==
    {<<>>, <<142>>, <<2>>, <<202, 1>>, <<202, 1, 0>>,
     SetRequestBase, SettingsBase, RoomTempBase, StatusBase,
     Take_(SetRequestBase, 10), Take_(SettingsBase, 8), Take_(StatusBase, 4),
     SetRequestBase \o <<0>>}

\* A frame as a device puts it on the wire, with the frame it stands for.
LoopFrame(t, payload) ==
    [bytes |-> WireFrame(t, Len(payload), payload, WireChecksum(t, Len(payload), payload)),
     frame |-> FrameNew(DataTypeFrom(t), Len(payload), payload)]

\* Wire frames for the read loop: the frame of the crate's example, one with a
\* start byte in its payload, one with an empty payload, one of an unrecognised
\* type, and one whose byte sum ends in 0xfd.
LoopFrames ==
    {LoopFrame(122, <<0>>), LoopFrame(97, <<252>>), LoopFrame(65, <<>>),
     LoopFrame(0, <<>>), LoopFrame(122, <<85>>)}

\* The buffer of n frames fs[1..n], each preceded by its junk js[k].
RECURSIVE LoopBytes(_, _, _)
LoopBytes(js, fs, n) ==
    IF n = 0 THEN <<>>
    ELSE LoopBytes(js, fs, n - 1) \o js[n] \o fs[n].bytes

NoOut == [op |-> "none", kind |-> "none"]
AsReceived == [pos |-> -1, valid |-> <<>>, bytes |-> <<>>]

Init ==
    /\ data \in RawBuffers \cup FrameBuffers \cup DstBuffers \cup LongDsts \cup PayloadDsts
                \cup FrameDataDsts
    /\ out = NoOut
    /\ origin = AsReceived
    /\ overflow_checks \in BOOLEAN

(***************************************************************************)
(* The calls.  A caller that gets Ok from a parser goes on with the        *)
(* remainder (lib.rs: `let (buf, frame) = Frame::parse(buf).unwrap()`);    *)
(* after a panic nothing more runs.                                        *)
(***************************************************************************)
DoParse ==
    /\ out.kind # "Panic"
    /\ LET r == FrameParse(data)
       IN  /\ out' = r @@ [op |-> "parse", input |-> data]
           /\ data' = IF r.kind = "Ok" THEN r.rest ELSE data
    /\ UNCHANGED <<origin, overflow_checks>>

DoParseUntil ==
    /\ out.kind # "Panic"
    /\ LET r == ParseUntil(data)
       IN  /\ out' = r @@ [op |-> "parse_until", input |-> data]
           /\ data' = IF r.kind = "Ok" THEN r.rest ELSE data
    /\ UNCHANGED <<origin, overflow_checks>>

\* checksum(data_type, data_len, data) on its own, as frame.rs's checksum_test calls it
DoChecksum ==
    /\ out = NoOut
    /\ origin = AsReceived
    /\ Len(data) <= MaxChecksumData
    /\ \E dt \in DataTypes, dl \in 0..255 :
         out' = Checksum(dt, dl, data)
                  @@ [op |-> "checksum", data_type |-> dt, data_len |-> dl, input |-> data]
    /\ UNCHANGED <<data, origin, overflow_checks>>

\* Frame::new(dt, dl, p).encode(&mut data)
DoEncode ==
    /\ out = NoOut
    /\ origin = AsReceived
    /\ data \in DstBuffers \cup LongDsts
    /\ \E dt \in DataTypes, p \in EncodePayloads :
         \E dl \in {0, Len(p) - 1, Len(p), Len(p) + 1} \cap Nat :
           LET frame == FrameNew(dt, dl, p)
               r == FrameEncode(frame, data)
           IN  /\ out' = [x \in DOMAIN r \ {"buf"} |-> r[x]]
                           @@ [op |-> "encode", frame |-> frame, dst |-> data]
               /\ data' = r.buf
    /\ UNCHANGED <<origin, overflow_checks>>

\* <enum>::from(byte) for a byte of any value
DoFrom ==
    /\ out = NoOut
    /\ origin = AsReceived
    /\ data = <<>>
    /\ \E enum \in Enums, byte \in 0..255 :
         out' = [op |-> "from", kind |-> "Ok", enum |-> enum, byte |-> byte,
                 val |-> EnumFrom(enum, byte)]
    /\ UNCHANGED <<data, origin, overflow_checks>>

\* SetRequest::parse(payload)
DoSetRequestParse ==
    /\ out = NoOut
    /\ origin = AsReceived
    /\ data = <<>>
    /\ \E payload \in SetRequestPayloads :
         out' = SetRequestParse(payload) @@ [op |-> "set_request_parse", input |-> payload]
    /\ UNCHANGED <<data, origin, overflow_checks>>

\* GetInfoResponse::parse(payload)
DoGetInfoResponseParse ==
    /\ out = NoOut
    /\ origin = AsReceived
    /\ data = <<>>
    /\ \E payload \in GetInfoResponsePayloads :
         out' = GetInfoResponseParse(payload)
                  @@ [op |-> "get_info_response_parse", input |-> payload]
    /\ UNCHANGED <<data, origin, overflow_checks>>

\* temp.celsius_tenths() for a temperature of any representation and byte
DoCelsiusTenths ==
    /\ out = NoOut
    /\ origin = AsReceived
    /\ data = <<>>
    /\ \E rep \in {"HalfDegreesCPlusOffset", "SetpointMapped", "RoomTempMapped"},
          value \in 0..255 :
         LET temp == [rep |-> rep, value |-> value]
         IN  out' = CelsiusTenths(temp) @@ [op |-> "celsius_tenths", temp |-> temp]
    /\ UNCHANGED <<data, origin, overflow_checks>>

\* req.encode_flags(&mut data) for a destination of one to three bytes
DoEncodeFlags ==
    /\ out = NoOut
    /\ origin = AsReceived
    /\ data \in DstBuffers
    /\ Len(data) \in 1..3
    /\ \E req \in SetRequests :
         LET r == EncodeFlags(req, data)
         IN  /\ out' = [x \in DOMAIN r \ {"buf"} |-> r[x]]
                         @@ [op |-> "encode_flags", req |-> req, dst |-> data]
             /\ data' = r.buf
    /\ UNCHANGED <<origin, overflow_checks>>

\* req.encode(&mut data)
DoSetRequestEncode ==
    /\ out = NoOut
    /\ origin = AsReceived
    /\ data \in PayloadDsts
    /\ \E req \in SetRequests :
         LET r == SetRequestEncode(req, data)
         IN  /\ out' = [x \in DOMAIN r \ {"buf"} |-> r[x]]
                         @@ [op |-> "set_request_encode", req |-> req, dst |-> data]
             /\ data' = r.buf
    /\ UNCHANGED <<origin, overflow_checks>>

\* Frame::new(the payload's type, its length, payload).encode(&mut data)
DoFrameEncodeData ==
    /\ out = NoOut
    /\ origin = AsReceived
    /\ data \in DstBuffers \cup FrameDataDsts
    /\ \E d \in FrameDatas :
         LET frame == FrameNew(d.type, PayloadLength(d), d)
             r == FrameEncodeData(frame, data)
         IN  /\ out' = [x \in DOMAIN r \ {"buf"} |-> r[x]]
                         @@ [op |-> "frame_encode_data", frame_t |-> frame, dst |-> data]
             /\ data' = r.buf
    /\ UNCHANGED <<origin, overflow_checks>>

\* ConnectRequest::parse(payload)
DoConnectRequestParse ==
    /\ out = NoOut
    /\ origin = AsReceived
    /\ data = <<>>
    /\ \E payload \in ConnectPayloads :
         out' = ConnectRequestParse(payload)
                  @@ [op |-> "connect_request_parse", input |-> payload]
    /\ UNCHANGED <<data, origin, overflow_checks>>

\* FrameData::parse(frame), for the frame a Frame::parse has just returned
\* (lib.rs) or for a frame of any type around one of the payloads.
DoFrameDataParse ==
    /\ \/ /\ out.op = "parse" /\ out.kind = "Ok"
          /\ out' = FrameDataParse(out.frame)
                      @@ [op |-> "frame_data_parse", frame |-> out.frame,
                          input |-> out.input]
       \/ /\ out = NoOut /\ origin = AsReceived /\ data = <<>>
          /\ \E dt \in DataTypes, payload \in DataPayloads :
               LET frame == FrameNew(dt, Len(payload), payload)
               IN  out' = FrameDataParse(frame)
                            @@ [op |-> "frame_data_parse", frame |-> frame,
                                input |-> <<>>]
    /\ UNCHANGED <<data, origin, overflow_checks>>

\* Line noise: one byte of a frame that has just been accepted, other than its
\* checksum byte, is changed and the frame is presented again.
Corrupt ==
    /\ out.op = "parse"
    /\ out.kind = "Ok"
    /\ origin = AsReceived
    /\ LET valid == Take_(out.input, Len(out.input) - Len(out.rest))
       IN  \E pos \in 0..(Len(valid) - 2), b \in MutBytes :
             /\ b # valid[pos + 1]
             /\ data' = WriteAt(valid, pos, <<b>>)
             /\ origin' = [pos |-> pos, valid |-> valid, bytes |-> WriteAt(valid, pos, <<b>>)]
             /\ out' = [op |-> "corrupt", kind |-> "none"]
    /\ UNCHANGED overflow_checks

\* A slow line: of a frame that has just been accepted only the first n bytes
\* have arrived so far, n less than the frame's length.
Truncate ==
    /\ out.op = "parse"
    /\ out.kind = "Ok"
    /\ origin = AsReceived
    /\ LET valid == Take_(out.input, Len(out.input) - Len(out.rest))
       IN  \E n \in 0..(Len(valid) - 1) :
             /\ data' = Take_(valid, n)
             /\ origin' = [pos |-> -2, valid |-> valid, bytes |-> Take_(valid, n),
                           frame |-> out.frame]
             /\ out' = [op |-> "truncate", kind |-> "none"]
    /\ UNCHANGED overflow_checks

\* The caller that was told Incomplete for the bytes so far accumulates the
\* missing ones and presents the whole again.
AppendMissing ==
    /\ origin.pos = -2
    /\ out.op = "parse"
    /\ out.kind = "Incomplete"
    /\ out.input = origin.bytes
    /\ data' = origin.valid
    /\ origin' = [origin EXCEPT !.pos = -3, !.bytes = origin.valid]
    /\ out' = [op |-> "append", kind |-> "none"]
    /\ UNCHANGED overflow_checks

\* The caller's buffer filled from the serial line: one or two frames as they
\* are on the wire, each preceded by junk without a start byte.
LoopStart ==
    /\ out = NoOut
    /\ origin = AsReceived
    /\ data = <<>>
    /\ \E n \in 1..MaxLoopFrames :
         \E js \in [1..n -> Junks], fs \in [1..n -> LoopFrames] :
           /\ data' = LoopBytes(js, fs, n)
           /\ out' = [op |-> "loop", kind |-> "none", pc |-> "run", iterations |-> 0,
                      got |-> <<>>, expected |-> [k \in 1..n |-> fs[k].frame],
                      input |-> LoopBytes(js, fs, n), before |-> LoopBytes(js, fs, n)]
    /\ UNCHANGED <<origin, overflow_checks>>

\* One iteration of the read loop on a buffer that is not empty:
\* Frame::parse_until, then Frame::parse of the remainder; the caller goes on
\* with what Frame::parse left.  A failure of either call ends the loop.
LoopIterate ==
    /\ out.op = "loop"
    /\ out.pc = "run"
    /\ data # <<>>
    /\ LET s == ParseUntil(data)
           p == FrameParse(s.rest)
       IN  IF s.kind # "Ok"
           THEN /\ out' = [out EXCEPT !.pc = "parse_until", !.kind = s.kind]
                /\ data' = data
           ELSE IF p.kind # "Ok"
           THEN /\ out' = [out EXCEPT !.pc = "parse", !.kind = p.kind]
                /\ data' = s.rest
           ELSE /\ out' = [out EXCEPT !.got = Append(@, p.frame), !.before = data,
                                      !.iterations = @ + 1]
                /\ data' = p.rest
    /\ UNCHANGED <<origin, overflow_checks>>

Next ==
    \/ DoParse
    \/ DoParseUntil
    \/ DoChecksum
    \/ DoEncode
    \/ DoFrom
    \/ DoSetRequestParse
    \/ DoGetInfoResponseParse
    \/ DoCelsiusTenths
    \/ DoEncodeFlags
    \/ DoSetRequestEncode
    \/ DoFrameEncodeData
    \/ DoConnectRequestParse
    \/ DoFrameDataParse
    \/ Corrupt
    \/ Truncate
    \/ AppendMissing
    \/ LoopStart
    \/ LoopIterate

Spec == Init /\ [][Next]_vars

(***************************************************************************)
(* What the claims speak of.                                               *)
(***************************************************************************)
\* i holds a whole envelope: start byte, constants, the declared number of
\* data bytes and one trailing byte.
StructurallyComplete(i) ==
    /\ Len(i) >= 6
    /\ i[1] = FRAME_START /\ i[3] = FRAME_B3 /\ i[4] = FRAME_B4
    /\ Len(i) >= 6 + i[5]

PayloadOf(i) == SubSeq(i, 6, 5 + i[5])
TrailerOf(i) == i[6 + i[5]]

\* Every fixed byte that i holds is the expected one.
FixedBytesMatch(i) ==
    /\ Len(i) >= 1 => i[1] = FRAME_START
    /\ Len(i) >= 3 => i[3] = FRAME_B3
    /\ Len(i) >= 4 => i[4] = FRAME_B4

ChecksumError == out.kind = "Error" /\ out.code = "Verify"
MalformedError == out.kind = "Error" /\ out.code = "Tag"

\* C1: a frame of any type with a payload, encoded into a large-enough buffer,
\* parses back from the bytes written as Ok with the same type, payload and
\* data_len, and nothing left over.
C1_RoundTrip ==
    (/\ out.op = "encode"
     /\ out.frame.data_len = Len(out.frame.data)
     /\ Len(out.dst) >= 5 + Len(out.frame.data) + 1)
    => /\ out.kind = "Ok"
       /\ LET r == FrameParse(Take_(data, out.n))
          IN  r.kind = "Ok" /\ r.frame = out.frame /\ r.rest = <<>>

\* C2: checksum(type, length, payload) always yields the byte
\* (0xFC - ((0xFC + type + 0x01 + 0x30 + length + sum of payload) mod 256)) mod 256;
\* it does not fail when the low byte of the sum is 0xFD, 0xFE or 0xFF.
C2_ChecksumFormula ==
    out.op = "checksum"
    => /\ out.kind = "Ok"
       /\ out.val = WireChecksum(DataTypeAsU8(out.data_type), out.data_len, out.input)

\* C3: a structurally complete frame whose trailing byte is not the checksum
\* makes Frame::parse report a checksum mismatch that carries the received and
\* the calculated checksum and still surfaces the frame.
C3_MismatchSurfaced ==
    (/\ out.op = "parse"
     /\ StructurallyComplete(out.input)
     /\ TrailerOf(out.input)
          # WireChecksum(out.input[2], out.input[5], PayloadOf(out.input))
     /\ TrailerOf(out.input)
          # WireChecksum(DataTypeAsU8(DataTypeFrom(out.input[2])), out.input[5],
                         PayloadOf(out.input)))
    => /\ ChecksumError
       /\ {"received", "calculated", "frame"} \subseteq DOMAIN out

\* The parse at hand is that of an accepted frame with one byte changed.
C4_Corrupted ==
    origin.pos >= 0 /\ out.op = "parse" /\ out.input = origin.bytes

ChecksumErrorOrOverflow ==
    ChecksumError \/ (out.kind = "Panic" /\ overflow_checks)

C5_UnknownTypeParses ==
    (/\ out.op = "parse"
     /\ StructurallyComplete(out.input)
     /\ DataTypeFrom(out.input[2]) = "Unknown"
     /\ TrailerOf(out.input)
          = WireChecksum(out.input[2], out.input[5], PayloadOf(out.input)))
    => /\ out.kind = "Ok"
       /\ out.frame.data_type = "Unknown"
       /\ out.frame.data = PayloadOf(out.input)

Scenario1Header == <<252, 122, 1, 48, 1, 0>>

C7_Original ==
    (out.op = "parse" /\ Len(out.input) < 6) => out.kind = "Incomplete"

\* C7 amended: a buffer of fewer than 6 bytes gives Incomplete when every fixed
\* byte it holds (offset 0, 2, 3) is the expected one and a malformed error
\* otherwise; never a panic, a checksum error or a frame.
C7_Amended ==
    (out.op = "parse" /\ Len(out.input) < 6)
    => IF FixedBytesMatch(out.input)
       THEN out.kind = "Incomplete"
       ELSE MalformedError

C7_Witness ==
    out.op = "parse" /\ Len(out.input) = 5 /\ out.kind = "Incomplete"

\* C8: a first byte other than 0xFC, or bytes at offsets 2 and 3 other than
\* 0x01 0x30, make Frame::parse fail with the malformed error (not Incomplete,
\* not the checksum error) and return no frame.
C8_Malformed ==
    (/\ out.op = "parse"
     /\ \/ Len(out.input) >= 1 /\ out.input[1] # FRAME_START
        \/ Len(out.input) >= 4 /\ <<out.input[3], out.input[4]>> # <<FRAME_B3, FRAME_B4>>)
    => MalformedError

C8_Witness ==
    /\ out.op = "parse"
    /\ Len(out.input) >= 6
    /\ out.input[1] = FRAME_START
    /\ out.input[4] # FRAME_B4
    /\ MalformedError

\* C9: a successful Frame::parse consumed exactly 6 + L bytes, L the byte at
\* offset 4: the data is bytes 5..5+L, data_len is L, and the remainder is the
\* input from offset 6+L on, which is what the caller goes on with.
C9_Consumed ==
    (out.op = "parse" /\ out.kind = "Ok")
    => LET L == out.input[5]
       IN  /\ Len(out.input) >= 6 + L
           /\ out.frame.data = SubSeq(out.input, 6, 5 + L)
           /\ out.frame.data_len = L
           /\ out.rest = SubSeq(out.input, 7 + L, Len(out.input))
           /\ data = out.rest

C9_Witness ==
    /\ out.op = "parse" /\ out.kind = "Ok"
    /\ out.frame.data_len = 2
    /\ out.rest # <<>>

HasStart(i) == \E k \in 1..Len(i) : i[k] = FRAME_START

\* C10: on a buffer that holds a 0xFC, Frame::parse_until succeeds; the junk it
\* skips holds no 0xFC, the remainder begins with 0xFC, junk and remainder make
\* up the buffer, and nothing is skipped when the buffer begins with 0xFC.
C10_Scan ==
    (out.op = "parse_until" /\ HasStart(out.input))
    => /\ out.kind = "Ok"
       /\ out.junk \o out.rest = out.input
       /\ ~HasStart(out.junk)
       /\ out.rest # <<>> /\ out.rest[1] = FRAME_START
       /\ (out.input[1] = FRAME_START => out.junk = <<>>)
       /\ data = out.rest

C10_Witness ==
    /\ out.op = "parse_until" /\ out.kind = "Ok"
    /\ Len(out.junk) = 2
    /\ Len(out.rest) >= 6

\* C11: whenever Frame::encode returns Ok(n), for any data_type, data_len and
\* data given to Frame::new: n = 5 + L + 1 with L the length of the payload, L is
\* the byte at offset 4, bytes 0..3 are 0xFC, the type byte, 0x01, 0x30, the
\* payload follows verbatim, byte n-1 is the checksum of the type byte, L and
\* the payload, and n is the frame's length().
C11_EncodeLayout ==
    (out.op = "encode" /\ out.kind = "Ok")
    => LET L == Len(out.frame.data)
           t == DataTypeAsU8(out.frame.data_type)
       IN  /\ out.n = 5 + L + 1
           /\ out.n = FrameLength(out.frame)
           /\ Take_(data, 5) = <<FRAME_START, t, FRAME_B3, FRAME_B4, L>>
           /\ SubSeq(data, 6, 5 + L) = out.frame.data
           /\ data[out.n] = WireChecksum(t, L, out.frame.data)

\* C12: encoding a frame whose payload is longer than 255 bytes fails with the
\* error LengthOverflow, and the length byte of the destination never becomes
\* the payload length modulo 256.
C12_LengthOverflow ==
    (out.op = "encode" /\ Len(out.frame.data) > 255)
    => /\ out.kind = "Err" /\ out.err = "LengthOverflow"
       /\ data[5] # Len(out.frame.data) % 256

\* C13: Frame::encode into a destination shorter than 5 + payload length + 1
\* returns Err(BufferTooSmall), whatever data_len is; it does not panic and the
\* destination keeps its length.
C13_BufferTooSmall ==
    (out.op = "encode" /\ Len(out.dst) < 5 + Len(out.frame.data) + 1)
    => /\ out.kind = "Err" /\ out.err = "BufferTooSmall"
       /\ Len(data) = Len(out.dst)

\* The byte tables of the enumerations: the pairs of a byte and its variant.
C14_Table ==
    [Power |-> {<<0, "Off">>, <<1, "On">>},
     Mode |-> {<<1, "Heat">>, <<2, "Dry">>, <<3, "Cool">>, <<7, "Fan">>, <<8, "Auto">>},
     Fan |-> {<<0, "Auto">>, <<1, "Quiet">>, <<2, "F1">>, <<3, "F2">>, <<5, "F3">>,
              <<6, "F4">>},
     Vane |-> {<<0, "Auto">>, <<1, "V1">>, <<2, "V2">>, <<3, "V3">>, <<4, "V4">>,
               <<5, "V5">>, <<7, "Swing">>},
     WideVane |-> {<<1, "LL">>, <<2, "L">>, <<3, "Center">>, <<4, "R">>, <<5, "RR">>,
                   <<8, "LR">>, <<12, "Swing">>},
     ISee |-> {<<0, "Off">>, <<1, "On">>},
     InfoType |-> {<<2, "Settings">>, <<3, "RoomTemp">>, <<4, "Type4">>, <<5, "Timers">>,
                   <<6, "Status">>, <<9, "MaybeStandby">>},
     DataType |-> {<<65, "SetRequest">>, <<66, "GetInfoRequest">>, <<90, "ConnectRequest">>,
                   <<97, "SetResponse">>, <<98, "GetInfoResponse">>,
                   <<122, "ConnectResponse">>}]

\* C14: for each of Power, Mode, Fan, Vane, WideVane, ISee, InfoType and
\* DataType, decoding a byte of the enumeration's table yields the variant
\* listed for it and decoding any other byte of 0..255 yields Unknown.
C14_EnumDecode ==
    out.op = "from"
    => /\ \A e \in C14_Table[out.enum] : e[1] = out.byte => out.val = e[2]
       /\ (\A e \in C14_Table[out.enum] : e[1] # out.byte) => out.val = "Unknown"

C14_Witness ==
    /\ out.op = "from" /\ out.enum = "Fan"
    /\ out.byte = 4 /\ out.val = "Unknown"

\* The enumeration fields of the payloads: the byte offset in a SetRequest and
\* in a Settings payload, and the flag of the field in a SetRequest.
C15_Fields ==
    {[name |-> "power", enum |-> "Power", set_off |-> 3, info_off |-> 3,
      flag_byte |-> 1, flag_bit |-> 0],
     [name |-> "mode", enum |-> "Mode", set_off |-> 4, info_off |-> 4,
      flag_byte |-> 1, flag_bit |-> 1],
     [name |-> "fan", enum |-> "Fan", set_off |-> 6, info_off |-> 6,
      flag_byte |-> 1, flag_bit |-> 3],
     [name |-> "vane", enum |-> "Vane", set_off |-> 7, info_off |-> 7,
      flag_byte |-> 1, flag_bit |-> 4],
     [name |-> "widevane", enum |-> "WideVane", set_off |-> 13, info_off |-> 10,
      flag_byte |-> 2, flag_bit |-> 0]}

OutOfTable(enum, b) == \A e \in C14_Table[enum] : e[1] # b

\* C15: a SetRequest payload or a Settings payload in which the byte of power,
\* mode, fan, vane or widevane is outside the enumeration's table decodes
\* successfully with that field Unknown; a Settings payload stays Settings.
C15_UnknownEnumByte ==
    /\ (out.op = "set_request_parse" /\ out.input[1] = 1)
       => \A f \in C15_Fields :
            (/\ Bit(out.input[f.flag_byte + 1], f.flag_bit) = 1
             /\ OutOfTable(f.enum, out.input[f.set_off + 1]))
            => /\ out.kind = "Ok"
               /\ out.val[f.name] = Some("Unknown")
    /\ (out.op = "get_info_response_parse" /\ out.input[1] = 2)
       => \A f \in C15_Fields :
            OutOfTable(f.enum, out.input[f.info_off + 1])
            => /\ out.kind = "Ok"
               /\ out.val.variant = "Settings"
               /\ out.val[f.name] = "Unknown"

\* C16: a 16-byte Settings payload decodes with setpoint = SetpointMapped of
\* byte 5 when byte 11 is 0x00 and HalfDegreesCPlusOffset of byte 11 otherwise;
\* a 16-byte RoomTemperature payload decodes with temperature = RoomTempMapped
\* of byte 3 when byte 6 is 0x00 and HalfDegreesCPlusOffset of byte 6 otherwise,
\* whatever the mapped byte is.
C16_TemperatureFallback ==
    (out.op = "get_info_response_parse" /\ Len(out.input) = 16)
    => /\ out.input[1] = 2
          => /\ out.kind = "Ok"
             /\ out.val.variant = "Settings"
             /\ out.val.setpoint =
                  IF out.input[12] = 0
                  THEN SetpointMapped(out.input[6])
                  ELSE HalfDegreesCPlusOffset(out.input[12])
       /\ out.input[1] = 3
          => /\ out.kind = "Ok"
             /\ out.val.variant = "RoomTemperature"
             /\ out.val.temperature =
                  IF out.input[7] = 0
                  THEN RoomTempMapped(out.input[4])
                  ELSE HalfDegreesCPlusOffset(out.input[7])

C16_Witness ==
    /\ out.op = "get_info_response_parse"
    /\ out.input[1] = 3 /\ out.input[4] = 255 /\ out.input[7] = 0
    /\ out.kind = "Ok"
    /\ out.val.temperature = RoomTempMapped(255)

\* C17: for every byte v, celsius_tenths returns the integer (v - 128) * 5 for
\* HalfDegreesCPlusOffset(v), (31 - v) * 10 for SetpointMapped(v) and
\* (v + 10) * 10 for RoomTempMapped(v), with no 8-bit underflow or overflow.
C17_CelsiusTenths ==
    out.op = "celsius_tenths"
    => /\ out.kind = "Ok"
       /\ out.val = CASE out.temp.rep = "HalfDegreesCPlusOffset" -> (out.temp.value - 128) * 5
                      [] out.temp.rep = "SetpointMapped" -> (31 - out.temp.value) * 10
                      [] out.temp.rep = "RoomTempMapped" -> (out.temp.value + 10) * 10

\* C18: encode_flags writes flag byte 0 with bit 0 set iff power is Some, bit 1
\* iff mode, bit 2 iff temperature, bit 3 iff fan, bit 4 iff vane, bits 5..7
\* clear, and flag byte 1 with bit 0 set iff widevane is Some and the other bits
\* clear, whatever the values of the fields are.
C18_FlagBytes ==
    (out.op = "encode_flags" /\ Len(out.dst) = 2)
    => /\ out.kind = "Ok"
       /\ Bit(data[1], 0) = 1 <=> out.req.power.some
       /\ Bit(data[1], 1) = 1 <=> out.req.mode.some
       /\ Bit(data[1], 2) = 1 <=> out.req.temp.some
       /\ Bit(data[1], 3) = 1 <=> out.req.fan.some
       /\ Bit(data[1], 4) = 1 <=> out.req.vane.some
       /\ data[1] < 32
       /\ data[2] = (IF out.req.widevane.some THEN 1 ELSE 0)

C18_Witness ==
    /\ out.op = "encode_flags" /\ out.kind = "Ok"
    /\ out.req.power = Some("Unknown")
    /\ ~out.req.mode.some /\ out.req.temp.some /\ ~out.req.fan.some
    /\ out.req.vane.some /\ ~out.req.widevane.some
    /\ out.dst = <<238, 238>>
    /\ data = <<21, 0>>

\* C19: after a successful SetRequest encode into a 16-byte destination of any
\* prior content, the byte of every absent field (power 3, mode 4, temperature 5
\* and 14, fan 6, vane 7, widevane 13) is 0x00, the padding bytes 8..12 and 15
\* are 0x00, and the length reported is 16.
C19_AbsentZero ==
    (out.op = "set_request_encode" /\ out.kind = "Ok")
    => /\ out.n = 16
       /\ ~out.req.power.some => data[4] = 0
       /\ ~out.req.mode.some => data[5] = 0
       /\ ~out.req.temp.some => (data[6] = 0 /\ data[15] = 0)
       /\ ~out.req.fan.some => data[7] = 0
       /\ ~out.req.vane.some => data[8] = 0
       /\ ~out.req.widevane.some => data[14] = 0
       /\ \A k \in 9..13 : data[k] = 0
       /\ data[16] = 0

\* C20: for every SetRequest whose temperature is None or a
\* HalfDegreesCPlusOffset of 128..179, whose present enumeration fields are table
\* variants, and for every subset of present fields, decoding the 16 bytes that
\* encoding into a zeroed buffer produces yields the same SetRequest with no
\* bytes left over.
C20_SetRequestRoundTrip ==
    (/\ out.op = "set_request_encode"
     /\ out.dst = [k \in 1..16 |-> 0]
     /\ out.req.temp.some
          => /\ out.req.temp.val.rep = "HalfDegreesCPlusOffset"
             /\ out.req.temp.val.value \in 128..179
     /\ \A f \in {"power", "mode", "fan", "vane", "widevane"} :
          out.req[f].some => out.req[f].val # "Unknown")
    => /\ out.kind = "Ok"
       /\ SetRequestParse(data) = [kind |-> "Ok", rest |-> <<>>, val |-> out.req]

\* The true tenths of a degree of a temperature, as an integer.
TrueTenths(temp) ==
    CASE temp.rep = "HalfDegreesCPlusOffset" -> (temp.value - 128) * 5
      [] temp.rep = "SetpointMapped" -> (31 - temp.value) * 10
      [] temp.rep = "RoomTempMapped" -> (temp.value + 10) * 10

AllPresent(req) == \A f \in DOMAIN req : req[f].some

\* C21: a SetRequest with every field present encodes to 0x01, the flag bytes
\* 0x1F 0x01, the power byte, the mode byte, 0x1F - tenths/10, the fan byte, the
\* vane byte, five 0x00, the widevane byte, tenths/5 + 128, 0x00; for On, Auto,
\* Auto, Swing, LL, HalfDegreesCPlusOffset(0xAA) these are
\* 01 1F 01 01 08 0A 00 07 00 00 00 00 00 01 AA 00 and the frame's checksum is 0x98.
C21_SetRequestLayout ==
    /\ (out.op = "set_request_encode" /\ Len(out.dst) = 16 /\ AllPresent(out.req))
       => /\ out.kind = "Ok"
          /\ LET t == TrueTenths(out.req.temp.val)
             IN  data = <<1, 31, 1,
                          EncodedAsByte("Power", out.req.power.val),
                          EncodedAsByte("Mode", out.req.mode.val),
                          31 - (t \div 10),
                          EncodedAsByte("Fan", out.req.fan.val),
                          EncodedAsByte("Vane", out.req.vane.val),
                          0, 0, 0, 0, 0,
                          EncodedAsByte("WideVane", out.req.widevane.val),
                          (t \div 5) + 128, 0>>
    /\ (/\ out.op = "frame_encode_data"
        /\ Len(out.dst) >= 22
        /\ out.frame_t.data = [type |-> "SetRequest",
                             val |-> [power |-> Some("On"), mode |-> Some("Auto"),
                                      temp |-> Some(HalfDegreesCPlusOffset(170)),
                                      fan |-> Some("Auto"), vane |-> Some("Swing"),
                                      widevane |-> Some("LL")]])
       => /\ out.kind = "Ok"
          /\ Take_(data, 22) = <<252, 65, 1, 48, 16>> \o SetRequestBase \o <<152>>

\* The byte values of the InfoTypes.
C22_Byte ==
    [Settings |-> 2, RoomTemp |-> 3, Type4 |-> 4, Timers |-> 5, Status |-> 6,
     MaybeStandby |-> 9, Unknown |-> 255]

\* C22: for every InfoType t and every prior content of the destination, the
\* frame of GetInfoRequest(t) is FC 42 01 30 10, t's byte, fifteen 0x00 and the
\* checksum of these bytes; for Settings the checksum is 0x7B.
C22_GetInfoRequestFrame ==
    (/\ out.op = "frame_encode_data"
     /\ out.frame_t.data.type = "GetInfoRequest"
     /\ Len(out.dst) >= 22)
    => LET b == C22_Byte[out.frame_t.data.val.info_type]
           payload == <<b>> \o [k \in 1..15 |-> 0]
       IN  /\ out.kind = "Ok"
           /\ out.n = 22
           /\ Take_(data, 22) = <<252, 66, 1, 48, 16>> \o payload
                                  \o <<WireChecksum(66, 16, payload)>>
           /\ Drop(data, 22) = Drop(out.dst, 22)
           /\ b = 2 => data[22] = 123

C22_Witness ==
    /\ out.op = "frame_encode_data" /\ out.kind = "Ok"
    /\ out.frame_t.data = [type |-> "GetInfoRequest", val |-> [info_type |-> "Unknown"]]
    /\ out.dst = [k \in 1..23 |-> 238]
    /\ data[6] = 255 /\ data[7] = 0 /\ data[23] = 238

\* C23: ConnectRequest encodes to the payload CA 01, framed as
\* FC 5A 01 30 02 CA 01 A8; decoding a ConnectRequest payload succeeds exactly
\* when the payload begins with CA 01, and a payload of at least 2 bytes that
\* begins otherwise is rejected with an error.
C23_ConnectRequest ==
    /\ (/\ out.op = "frame_encode_data"
        /\ out.frame_t.data.type = "ConnectRequest"
        /\ Len(out.dst) >= 8)
       => /\ out.kind = "Ok"
          /\ out.n = 8
          /\ Take_(data, 8) = <<252, 90, 1, 48, 2, 202, 1, 168>>
    /\ out.op = "connect_request_parse"
       => LET magic == Len(out.input) >= 2 /\ Take_(out.input, 2) = <<202, 1>>
          IN  /\ out.kind = "Ok" <=> magic
              /\ (Len(out.input) >= 2 /\ ~magic) => out.kind = "Error"
              /\ out.kind = "Ok" => out.rest = Drop(out.input, 2)

C23_Witness ==
    /\ out.op = "connect_request_parse"
    /\ out.input = <<202, 0, 1>>
    /\ out.kind = "Error"

\* C24: the variant a 16-byte GetInfoResponse payload decodes to is determined
\* by its first byte, whatever the other bytes are: 0x02 gives Settings, 0x03
\* RoomTemperature, 0x06 Status with compressor_frequency = byte 3 and
\* operating = byte 4, and 0x05 and every other byte Unknown.
C24_VariantByTag ==
    (out.op = "get_info_response_parse" /\ Len(out.input) = 16)
    => /\ out.kind = "Ok"
       /\ out.val.variant = CASE out.input[1] = 2 -> "Settings"
                              [] out.input[1] = 3 -> "RoomTemperature"
                              [] out.input[1] = 6 -> "Status"
                              [] OTHER -> "Unknown"
       /\ out.input[1] = 6
          => /\ out.val.compressor_frequency = out.input[4]
             /\ out.val.operating = out.input[5]

C24_Witness ==
    /\ out.op = "get_info_response_parse"
    /\ out.input[1] = 2 /\ out.input[4] = 2
    /\ out.kind = "Ok"
    /\ out.val.variant = "Settings" /\ out.val.power = "Unknown"

\* C25: a successful FrameData::parse returns the variant of the frame's type,
\* for each of the six known types; a frame of type Unknown always decodes
\* successfully to the Unknown marker and the remainder returned is the whole
\* payload.
C25_Dispatch ==
    out.op = "frame_data_parse"
    => /\ out.kind = "Ok" => out.val.frame_data = out.frame.data_type
       /\ out.frame.data_type = "Unknown"
          => /\ out.kind = "Ok"
             /\ out.rest = out.frame.data

\* The SetRequest field of a 16-byte payload p that the packet table places at
\* byte offset off, present when its flag bit is set.
C26_FieldAt(p, flag, enum, off) ==
    IF flag = 1 THEN FromRepr(enum, p[off + 1]) ELSE None

\* C26: decoding a 16-byte SetRequest payload that starts with 0x01 succeeds and
\* consumes all 16 bytes; each of power, mode, temperature, fan, vane, widevane
\* is Some exactly when its flag bit is set and then holds the byte at its fixed
\* offset (power 3, mode 4, fan 6, vane 7, widevane 13, temperature the
\* HalfDegreesCPlusOffset of byte 14), whatever the other flag bits are.
C26_FixedOffsets ==
    (out.op = "set_request_parse" /\ Len(out.input) = 16 /\ out.input[1] = 1)
    => LET p == out.input
       IN  /\ out.kind = "Ok"
           /\ out.rest = <<>>
           /\ out.val.power = C26_FieldAt(p, Bit(p[2], 0), "Power", 3)
           /\ out.val.mode = C26_FieldAt(p, Bit(p[2], 1), "Mode", 4)
           /\ out.val.temp = IF Bit(p[2], 2) = 1
                             THEN Some(HalfDegreesCPlusOffset(p[15])) ELSE None
           /\ out.val.fan = C26_FieldAt(p, Bit(p[2], 3), "Fan", 6)
           /\ out.val.vane = C26_FieldAt(p, Bit(p[2], 4), "Vane", 7)
           /\ out.val.widevane = C26_FieldAt(p, Bit(p[3], 0), "WideVane", 13)

\* The byte values of the Mode table (types.rs: Heat, Dry, Cool, Fan, Auto).
C27_ModeBytes == {1, 2, 3, 7, 8}

\* C27: a 16-byte GetInfoResponse Settings payload whose mode byte (offset 4)
\* holds a value of the Mode table decodes to Settings with the mode of that
\* value and isee = Off, and with power, fan, vane and widevane decoded from the
\* bytes at offsets 3, 6, 7 and 10.
C27_SettingsMode ==
    (/\ out.op = "get_info_response_parse"
     /\ Len(out.input) = 16
     /\ out.input[1] = 2
     /\ out.input[5] \in C27_ModeBytes)
    => /\ out.kind = "Ok"
       /\ out.val.variant = "Settings"
       /\ out.val.mode = ModeFrom(out.input[5])
       /\ out.val.isee = "Off"
       /\ out.val.power = PowerFrom(out.input[4])
       /\ out.val.fan = FanFrom(out.input[7])
       /\ out.val.vane = VaneFrom(out.input[8])
       /\ out.val.widevane = WideVaneFrom(out.input[11])

\* C28: every proper prefix, the empty one included, of the bytes that
\* Frame::parse accepted as a frame makes Frame::parse return Incomplete (not an
\* error, not a frame, not a panic), and parsing again once the missing bytes
\* are appended yields that frame with nothing left over.
C28_PrefixIncomplete ==
    /\ (origin.pos = -2 /\ out.op = "parse" /\ out.input = origin.bytes)
       => out.kind = "Incomplete"
    /\ (origin.pos = -3 /\ out.op = "parse" /\ out.input = origin.bytes)
       => /\ out.kind = "Ok"
          /\ out.frame = origin.frame
          /\ out.rest = <<>>

C28_Witness ==
    /\ origin.pos = -3
    /\ out.op = "parse"
    /\ out.input = origin.valid
    /\ out.kind = "Ok"
    /\ out.frame = origin.frame
    /\ Len(out.frame.data) > 0

\* C29: for a frame that a successful Frame::parse returned, FrameData::parse
\* succeeds or fails with a decode error; it never returns Incomplete, however
\* short the payload is for the frame type.
C29_NeverIncomplete ==
    (out.op = "frame_data_parse" /\ out.input # <<>>)
    => out.kind \in {"Ok", "Error"}

\* C30: the read loop over a buffer of valid frames, each preceded by junk
\* without 0xFC, never fails; every iteration shortens the buffer by at least 6
\* bytes; the frames obtained are the buffer's frames in order, and all of them
\* once the buffer is empty.
C30_ResyncLoop ==
    out.op = "loop"
    => /\ out.kind = "none"
       /\ out.iterations > 0 => Len(data) <= Len(out.before) - 6
       /\ Len(out.got) <= Len(out.expected)
       /\ out.got = SubSeq(out.expected, 1, Len(out.got))
       /\ data = <<>> => out.got = out.expected

\* The part of C30 that holds: when Frame::parse accepts each of the buffer's
\* frames on its own, the loop behaves as C30 says.
C30_LoopOnAccepted ==
    (/\ out.op = "loop"
     /\ \A f \in LoopFrames :
          (\E k \in 1..Len(out.expected) : out.expected[k] = f.frame)
          => FrameParse(f.bytes).kind = "Ok")
    => C30_ResyncLoop

C30_LoopDone ==
    /\ out.op = "loop"
    /\ out.iterations = 2
    /\ data = <<>>
    /\ out.got = out.expected
    /\ Len(out.input) = 18

====
